---- MODULE Spec2Model ----
(***************************************************************************)
(* Model of protonvpn_nm_lib/lib/user_settings.py: ProtonVPNUserSetting,   *)
(* the settings facade over the user configuration manager (ConfigStore),  *)
(* the kill switch manager and the user manager (account tier).            *)
(*                                                                         *)
(* Strings that the code formats, joins or validates are sequences of      *)
(* one-character strings; Str turns such a sequence into the string the    *)
(* caller sees.                                                            *)
(***************************************************************************)
EXTENDS Integers, Sequences, FiniteSets, TLC

\* ------------------------------------------------------------------ bounds
\* longest custom DNS list a caller passes to set_dns
MaxServers == 2
\* how many entries a collaborator appends in place to a list it was handed
MaxDefaultLen == 1

\* ------------------------------------------------------------- enumerations
None == "None"

ServerTierEnum == {"FREE", "PLUS"}

NetshieldTranslationEnum == {"DISABLED", "MALWARE", "ADS_MALWARE"}

KillswitchStatusEnum == {"DISABLED", "HARD", "SOFT"}

ProtocolEnum == {"TCP", "UDP", "WIREGUARD"}

UserSettingStatusEnum == {"ENABLED", "CUSTOM"}

\* DisplayUserSettingsEnum: the keys of the settings dictionaries
RawKeys == {"PROTOCOL", "KILLSWITCH", "DNS", "CUSTOM_DNS", "NETSHIELD"}

ReadableKeys == {"PROTOCOL", "KILLSWITCH", "DNS", "NETSHIELD"}

\* SUPPORTED_PROTOCOLS[ProtocolImplementationEnum.OPENVPN]
SupportedOpenVPN == {"TCP", "UDP"}

\* ProtocolEnum.<member>.value, as characters
ProtocolValue(p) ==
    CASE p = "TCP" -> <<"t", "c", "p">>
      [] p = "UDP" -> <<"u", "d", "p">>
      [] p = "WIREGUARD" -> <<"w", "i", "r", "e", "g", "u", "a", "r", "d">>

\* KILLSWITCH_STATUS_TEXT
KillswitchStatusText ==
    [k \in KillswitchStatusEnum |->
        CASE k = "DISABLED" -> "Off"
          [] k = "HARD" -> "Always-on"
          [] k = "SOFT" -> "On"]

\* --------------------------------------------------------------- characters
Digits == <<"0", "1", "2", "3", "4", "5", "6", "7", "8", "9">>

IsDigit(c) == \E i \in 1..Len(Digits) : Digits[i] = c

DigitVal(c) == (CHOOSE i \in 1..Len(Digits) : Digits[i] = c) - 1

Lower == <<"a", "c", "d", "e", "g", "i", "p", "r", "t", "u", "w">>

UpperOf == <<"A", "C", "D", "E", "G", "I", "P", "R", "T", "U", "W">>

\* str.upper() on one character
UpperChar(c) ==
    IF \E i \in 1..Len(Lower) : Lower[i] = c
    THEN UpperOf[CHOOSE i \in 1..Len(Lower) : Lower[i] = c]
    ELSE c

RECURSIVE Str(_)
\* the string spelled by a sequence of characters
Str(cs) == IF cs = <<>> THEN "" ELSE Head(cs) \o Str(Tail(cs))

\* str.upper()
Upper(cs) == Str([i \in 1..Len(cs) |-> UpperChar(cs[i])])

RECURSIVE JoinReversed(_, _)
\* Join building the string from the last entry to the first
JoinReversed(sep, list) ==
    IF list = <<>> THEN ""
    ELSE IF Len(list) = 1 THEN Str(list[1])
    ELSE JoinReversed(sep, Tail(list)) \o sep \o Str(list[1])

RECURSIVE Join(_, _)
\* sep.join(list) over a list of character sequences
Join(sep, list) ==
    IF list = <<>> THEN ""
    ELSE IF Len(list) = 1 THEN Str(list[1])
    ELSE Str(list[1]) \o sep \o Join(sep, Tail(list))

\* ---------------------------------------------------------------- IP check
RECURSIVE Split(_, _)
\* s.split("."): cur is the group being read
Split(cs, cur) ==
    IF cs = <<>> THEN <<cur>>
    ELSE IF Head(cs) = "." THEN <<cur>> \o Split(Tail(cs), <<>>)
    ELSE Split(Tail(cs), Append(cur, Head(cs)))

RECURSIVE Number(_, _)
Number(g, acc) ==
    IF g = <<>> THEN acc ELSE Number(Tail(g), 10 * acc + DigitVal(Head(g)))

IsOctet(g) ==
    /\ Len(g) \in 1..3
    /\ \A i \in 1..Len(g) : IsDigit(g[i])
    /\ Number(g, 0) <= 255

\* the check of one string: four dot-separated groups, each 0..255
IsDottedQuad(ip) ==
    LET groups == Split(ip, <<>>)
    IN  /\ Len(groups) = 4
        /\ \A i \in 1..4 : IsOctet(groups[i])

IpA == <<"1", ".", "2", ".", "3", ".", "4">>

IpBad == <<"3", "0", "0", ".", "1", ".", "1", ".", "1">>

IpShort == <<"1", ".", "2", ".", "3">>

IpB == <<"9", ".", "9", ".", "9", ".", "9">>

\* the candidate strings callers pass as DNS servers
Ips == {IpA, IpBad, IpShort}

\* the strings handed to the public IP check
IpCandidates == {IpA, IpBad, IpShort}

\* the candidates that pass the check
ValidIps == {ip \in IpCandidates \cup {IpB} : IsDottedQuad(ip)}

\* user_conf_manager.is_valid_ip
is_valid_ip(ip) == ip \in ValidIps

SeqsUpTo(S, n) == UNION {[1..k -> S] : k \in 0..n}

\* the custom DNS lists callers pass
DnsLists == SeqsUpTo(Ips, MaxServers)

\* -------------------------------------------------------------------- state
VARIABLES
    tier,         \* user_manager.tier
    conf,         \* the persisted user configuration (user_conf_manager)
    defaultList,  \* the list object bound to set_dns's default custom_dns_ips=[]
    op,           \* the facade method called last
    arg,          \* its arguments
    result,       \* "ok", or the error the call raised
    errValue,     \* the value an error message names
    calls,        \* the collaborator calls the method made, in order
    pre,          \* conf as it was when the method was called
    ret           \* the value the method returned

vars == <<tier, conf, defaultList, op, arg, result, errValue, calls, pre, ret>>

\* reset_default_configs: the documented default aggregate
DefaultConf ==
    [protocol |-> "TCP", killswitch |-> "DISABLED", dns_status |-> "ENABLED",
     custom_dns |-> <<>>, netshield |-> "DISABLED"]

NoRet == <<>>

NoValue == <<>>

\* a call made on a collaborator, and whether it returned (TRUE) or raised
Call(fn, args, returned) == [fn |-> fn, args |-> args, returned |-> returned]

Init ==
    /\ tier \in ServerTierEnum
    /\ conf = DefaultConf
    /\ defaultList = <<>>
    /\ op = "init"
    /\ arg = <<>>
    /\ result = "ok"
    /\ errValue = NoValue
    /\ calls = <<>>
    /\ pre = DefaultConf
    /\ ret = NoRet

\* what every call records about itself
Returns(name, a, r, ev, cs, rv) ==
    /\ op' = name
    /\ arg' = a
    /\ result' = r
    /\ errValue' = ev
    /\ calls' = cs
    /\ ret' = rv
    /\ pre' = conf

\* ------------------------------------------------------------------ getters
get_netshield == conf.netshield

get_killswitch == conf.killswitch

get_protocol == conf.protocol

get_dns == conf.dns_status

get_custom_dns_list == conf.custom_dns

get_user_tier == tier

\* the settings_dict of _get_user_settings
SettingsDict ==
    [k \in RawKeys |->
        CASE k = "PROTOCOL" -> get_protocol
          [] k = "KILLSWITCH" -> get_killswitch
          [] k = "DNS" -> get_dns
          [] k = "CUSTOM_DNS" -> get_custom_dns_list
          [] k = "NETSHIELD" -> get_netshield]

TransformProtocol(raw_protocol) ==
    IF raw_protocol \in SupportedOpenVPN
    THEN "OpenVPN (" \o Upper(ProtocolValue(raw_protocol)) \o ")"
    ELSE Upper(ProtocolValue(raw_protocol))

\* the dns_status dictionary built from raw_custom_dns
DnsStatusText(raw_custom_dns) ==
    [d \in {"ENABLED", "CUSTOM"} |->
        IF d = "ENABLED" THEN "Automatic"
        ELSE "Custom: " \o Join(", ", raw_custom_dns)]

NetshieldStatusText ==
    [n \in {"MALWARE", "ADS_MALWARE", "DISABLED"} |->
        CASE n = "MALWARE" -> "Malware"
          [] n = "ADS_MALWARE" -> "Ads and malware"
          [] n = "DISABLED" -> "Disabled"]

\* a dictionary lookup of the transformation raises KeyError
TransformRaises(raw_format) ==
    \/ raw_format["KILLSWITCH"] \notin DOMAIN KillswitchStatusText
    \/ raw_format["DNS"] \notin DOMAIN DnsStatusText(raw_format["CUSTOM_DNS"])
    \/ raw_format["NETSHIELD"] \notin DOMAIN NetshieldStatusText

transform_user_setting_to_readable_format(raw_format) ==
    [k \in ReadableKeys |->
        CASE k = "PROTOCOL" -> TransformProtocol(raw_format["PROTOCOL"])
          [] k = "KILLSWITCH" -> KillswitchStatusText[raw_format["KILLSWITCH"]]
          [] k = "DNS" ->
                DnsStatusText(raw_format["CUSTOM_DNS"])[raw_format["DNS"]]
          [] k = "NETSHIELD" -> NetshieldStatusText[raw_format["NETSHIELD"]]]

get_user_settings(readeable_format) ==
    /\ IF ~readeable_format
       THEN Returns("get_user_settings", <<readeable_format>>, "ok", NoValue,
                    <<>>, SettingsDict)
       ELSE IF TransformRaises(SettingsDict)
       THEN Returns("get_user_settings", <<readeable_format>>, "KeyError",
                    NoValue, <<>>, NoRet)
       ELSE Returns("get_user_settings", <<readeable_format>>, "ok", NoValue,
                    <<>>, transform_user_setting_to_readable_format(SettingsDict))
    /\ UNCHANGED <<tier, conf, defaultList>>

\* a call of one of the passthrough reads
Getter(name) ==
    /\ Returns(name, <<>>, "ok", NoValue, <<>>,
               [value |->
                   CASE name = "get_netshield" -> get_netshield
                     [] name = "get_killswitch" -> get_killswitch
                     [] name = "get_protocol" -> get_protocol
                     [] name = "get_dns" -> get_dns
                     [] name = "get_custom_dns_list" -> get_custom_dns_list
                     [] name = "get_user_tier" -> get_user_tier])
    /\ UNCHANGED <<tier, conf, defaultList>>

GetterNames ==
    {"get_netshield", "get_killswitch", "get_protocol", "get_dns",
     "get_custom_dns_list", "get_user_tier"}

is_valid_ip_call(ip) ==
    /\ Returns("is_valid_ip", <<ip>>, "ok", NoValue, <<>>,
               [value |-> is_valid_ip(ip)])
    /\ UNCHANGED <<tier, conf, defaultList>>

\* ------------------------------------------------------------------ setters
\* the configuration after the collaborator calls cs have been made on c;
\* a call that raised changes nothing
RECURSIVE Apply(_, _)
Apply(c, cs) ==
    IF cs = <<>> THEN c
    ELSE LET h == Head(cs)
             c1 == CASE ~h.returned -> c
                     [] h.fn = "update_netshield" ->
                          [c EXCEPT !.netshield = h.args[1]]
                     [] h.fn = "update_killswitch" ->
                          [c EXCEPT !.killswitch = h.args[1]]
                     [] h.fn = "update_default_protocol" ->
                          [c EXCEPT !.protocol = h.args[1]]
                     [] h.fn = "update_dns" ->
                          [c EXCEPT !.dns_status = h.args[1],
                                    !.custom_dns = h.args[2]]
                     [] h.fn = "reset_default_configs" -> DefaultConf
                     [] OTHER -> c
         IN  Apply(c1, Tail(cs))

\* Python truth value of the argument: a member of a plain Enum is true,
\* None is false
Truthy(v) == v # None

\* what callers pass as a NetShield level
NetshieldInputs == NetshieldTranslationEnum \cup {None}

\* NetshieldRaises with the "not" dropped
NetshieldRaisesTruthy(netshield_enum, user_tier) ==
    Truthy(netshield_enum) /\ user_tier = "FREE"

\* the condition under which _set_netshield raises
NetshieldRaises(netshield_enum, user_tier) ==
    ~Truthy(netshield_enum) /\ user_tier = "FREE"

\* NetshieldCalls writing through the kill switch updater
NetshieldCallsWrongField(netshield_enum, user_tier) ==
    IF NetshieldRaises(netshield_enum, user_tier) THEN <<>>
    ELSE <<Call("update_killswitch", <<"HARD">>, TRUE)>>

NetshieldCalls(netshield_enum, user_tier) ==
    IF NetshieldRaises(netshield_enum, user_tier) THEN <<>>
    ELSE <<Call("update_netshield", <<netshield_enum>>, TRUE)>>

set_netshield(netshield_enum) ==
    /\ Returns("set_netshield", <<netshield_enum>>,
               IF NetshieldRaises(netshield_enum, tier)
               THEN "TierRestrictionError" ELSE "ok",
               NoValue, NetshieldCalls(netshield_enum, tier), NoRet)
    /\ conf' = Apply(conf, NetshieldCalls(netshield_enum, tier))
    /\ UNCHANGED <<tier, defaultList>>

\* what ks_manager.update_from_user_configuration_menu can do
KsOutcomes == {"ok", "DisableConnectivityCheckError", "ProtonVPNException"}

\* the try / except / else of _set_killswitch: the error raised for what
\* the kill switch manager did, "ok" when the else branch runs
KillswitchError(ks_outcome) ==
    CASE ks_outcome = "DisableConnectivityCheckError" ->
            "KillSwitchConfigurationError"
      [] ks_outcome = "ok" -> "ok"
      [] OTHER -> "WrappedError"

\* KillswitchCalls persisting in a finally branch instead of the else branch
KillswitchCallsFinally(killswitch_enum, ks_outcome) ==
    <<Call("update_from_user_configuration_menu", <<killswitch_enum>>,
           ks_outcome = "ok"),
      Call("update_killswitch", <<killswitch_enum>>, TRUE)>>

\* the collaborator calls of _set_killswitch, in order
KillswitchCalls(killswitch_enum, ks_outcome) ==
    <<Call("update_from_user_configuration_menu", <<killswitch_enum>>,
           ks_outcome = "ok")>> \o
    (IF KillswitchError(ks_outcome) = "ok"
     THEN <<Call("update_killswitch", <<killswitch_enum>>, TRUE)>>
     ELSE <<>>)

set_killswitch(killswitch_enum, ks_outcome) ==
    /\ Returns("set_killswitch", <<killswitch_enum, ks_outcome>>,
               KillswitchError(ks_outcome), NoValue,
               KillswitchCalls(killswitch_enum, ks_outcome), NoRet)
    /\ conf' = Apply(conf, KillswitchCalls(killswitch_enum, ks_outcome))
    /\ UNCHANGED <<tier, defaultList>>

\* IsProtocolEnum rejecting only a missing value
IsProtocolEnumNotNone(v) == v # None

\* isinstance(protocol_enum, ProtocolEnum)
IsProtocolEnum(v) == v \in ProtocolEnum

\* what callers pass as a protocol: the members, a bare string, None
ProtocolInputs == ProtocolEnum \cup {"udp", None}

ProtocolCalls(protocol_enum) ==
    IF ~IsProtocolEnum(protocol_enum) THEN <<>>
    ELSE <<Call("update_default_protocol", <<protocol_enum>>, TRUE)>>

set_protocol(protocol_enum) ==
    /\ IF ~IsProtocolEnum(protocol_enum)
       THEN Returns("set_protocol", <<protocol_enum>>, "InvalidSettingError",
                    protocol_enum, ProtocolCalls(protocol_enum), NoRet)
       ELSE Returns("set_protocol", <<protocol_enum>>, "ok", NoValue,
                    ProtocolCalls(protocol_enum), NoRet)
    /\ conf' = Apply(conf, ProtocolCalls(protocol_enum))
    /\ UNCHANGED <<tier, defaultList>>

\* isinstance(setting_status, UserSettingStatusEnum)
IsUserSettingStatusEnum(v) == v \in UserSettingStatusEnum

\* what callers pass as a DNS status: the members and a bare string
DnsStatusInputs == UserSettingStatusEnum \cup {"custom"}

RECURSIVE FirstInvalid(_, _)
\* the for loop of _set_dns from entry i on: the index of the entry it
\* raises for, 0 when it runs to the end
FirstInvalid(custom_dns_ips, i) ==
    IF i > Len(custom_dns_ips) THEN 0
    ELSE IF ~is_valid_ip(custom_dns_ips[i]) THEN i
    ELSE FirstInvalid(custom_dns_ips, i + 1)

\* DnsCheck looking at the first entry only
DnsCheckFirstOnly(custom_dns_ips) ==
    IF custom_dns_ips # <<>> /\ ~is_valid_ip(custom_dns_ips[1]) THEN 1 ELSE 0

\* if custom_dns_ips: for ...: the entry the validation raises for, or 0
DnsCheck(custom_dns_ips) ==
    IF custom_dns_ips # <<>> THEN FirstInvalid(custom_dns_ips, 1) ELSE 0

\* the error _set_dns raises, "ok" when it returns
DnsError(setting_status, custom_dns_ips, store_ok) ==
    IF ~IsUserSettingStatusEnum(setting_status) THEN "InvalidSettingError"
    ELSE IF DnsCheck(custom_dns_ips) # 0 THEN "InvalidIpError"
    ELSE IF ~store_ok THEN "PersistenceError"
    ELSE "ok"

\* the collaborator calls of _set_dns
DnsCalls(setting_status, custom_dns_ips, store_ok) ==
    IF DnsError(setting_status, custom_dns_ips, TRUE) # "ok" THEN <<>>
    ELSE <<Call("update_dns", <<setting_status, custom_dns_ips>>, store_ok)>>

\* the entry a collaborator appends in place to a list it was handed
CollaboratorEntry == IpB

\* passed: the caller gave custom_dns_ips; otherwise the parameter is bound
\* to the one list object created when the method was defined.
\* grows: the collaborator appends to the list object it received.
set_dns(setting_status, passed, ips, store_ok, grows) ==
    LET custom_dns_ips == IF passed THEN ips ELSE defaultList
        err == DnsError(setting_status, custom_dns_ips, store_ok)
        cs == DnsCalls(setting_status, custom_dns_ips, store_ok)
    IN  /\ Returns("set_dns", <<setting_status, passed, custom_dns_ips>>, err,
                   IF err = "InvalidIpError"
                   THEN custom_dns_ips[DnsCheck(custom_dns_ips)]
                   ELSE NoValue,
                   cs, NoRet)
        /\ conf' = Apply(conf, cs)
        /\ defaultList' =
              IF ~passed /\ grows /\ cs # <<>>
              THEN Append(defaultList, CollaboratorEntry)
              ELSE defaultList
        /\ UNCHANGED tier

\* a call of _set_dns that reaches update_dns, which raises
set_dns_update_raises(setting_status, passed, ips) ==
    /\ passed \/ ips = <<>>
    /\ DnsCalls(setting_status, IF passed THEN ips ELSE defaultList, FALSE)
           # <<>>
    /\ set_dns(setting_status, passed, ips, FALSE, FALSE)

ResetCalls(store_ok) == <<Call("reset_default_configs", <<>>, store_ok)>>

reset_to_default_configs(store_ok) ==
    /\ Returns("reset_to_default_configs", <<>>,
               IF store_ok THEN "ok" ELSE "ResetError", NoValue,
               ResetCalls(store_ok), NoRet)
    /\ conf' = Apply(conf, ResetCalls(store_ok))
    /\ UNCHANGED <<tier, defaultList>>

\* ------------------------------------------------------------ specification
Next ==
    \/ \E readeable_format \in BOOLEAN : get_user_settings(readeable_format)
    \/ \E name \in GetterNames : Getter(name)
    \/ \E ip \in IpCandidates : is_valid_ip_call(ip)
    \/ \E netshield_enum \in NetshieldInputs : set_netshield(netshield_enum)
    \/ \E killswitch_enum \in KillswitchStatusEnum, ks_outcome \in KsOutcomes :
          set_killswitch(killswitch_enum, ks_outcome)
    \/ \E protocol_enum \in ProtocolInputs : set_protocol(protocol_enum)
    \/ \E setting_status \in DnsStatusInputs, ips \in DnsLists :
          set_dns(setting_status, TRUE, ips, TRUE, FALSE)
    \/ \E setting_status \in DnsStatusInputs :
          set_dns(setting_status, FALSE, <<>>, TRUE, FALSE)
    \/ \E setting_status \in DnsStatusInputs, passed \in BOOLEAN,
          ips \in DnsLists :
          set_dns_update_raises(setting_status, passed, ips)
    \/ \E store_ok \in BOOLEAN : reset_to_default_configs(store_ok)

\* the facade over a configuration manager that leaves alone the lists it is
\* handed
Spec == Init /\ [][Next]_vars

\* a call of _set_dns without custom_dns_ips after which the configuration
\* manager appends to the list it was handed
set_dns_default_kept(setting_status) ==
    /\ Len(defaultList) < MaxDefaultLen
    /\ set_dns(setting_status, FALSE, <<>>, TRUE, TRUE)

NextAliasing ==
    \/ Next
    \/ \E setting_status \in DnsStatusInputs :
          set_dns_default_kept(setting_status)

\* the facade over a configuration manager that edits in place the lists it
\* is handed
SpecAliasing == Init /\ [][NextAliasing]_vars

\* the inputs of the readable projection: every settings value built from the
\* enumerations
DisplayServers == SeqsUpTo({IpA, IpB}, MaxServers)

InitDisplay ==
    /\ tier \in ServerTierEnum
    /\ conf \in [protocol : ProtocolEnum, killswitch : KillswitchStatusEnum,
                 dns_status : UserSettingStatusEnum,
                 custom_dns : DisplayServers,
                 netshield : NetshieldTranslationEnum]
    /\ defaultList = <<>>
    /\ op = "init"
    /\ arg = <<>>
    /\ result = "ok"
    /\ errValue = NoValue
    /\ calls = <<>>
    /\ pre = conf
    /\ ret = NoRet

NextDisplay ==
    \E readeable_format \in BOOLEAN : get_user_settings(readeable_format)

\* _get_user_settings applied to every settings value
SpecDisplay == InitDisplay /\ [][NextDisplay]_vars

\* ------------------------------------------------------------------- claims
StoreUpdates ==
    {"update_netshield", "update_killswitch", "update_default_protocol",
     "update_dns"}

ReadOps == GetterNames \cup {"get_user_settings", "is_valid_ip"}

\* C1: on a Free-tier account set_netshield with a level other than
\* DISABLED raises the tier error, makes no update call and leaves the
\* persisted NetShield level as it was.
C1_FreeTierEnableRejected ==
    (op = "set_netshield" /\ tier = "FREE"
        /\ arg[1] \in {"MALWARE", "ADS_MALWARE"})
    => /\ result = "TierRestrictionError"
       /\ calls = <<>>
       /\ conf.netshield = pre.netshield

\* C2: set_netshield(DISABLED) raises nothing on any tier, makes the one
\* update_netshield(DISABLED) call, and _get_netshield then returns DISABLED.
C2_DisableAllowedOnEveryTier ==
    (op = "set_netshield" /\ arg[1] = "DISABLED")
    => /\ result = "ok"
       /\ calls = <<Call("update_netshield", <<"DISABLED">>, TRUE)>>
       /\ get_netshield = "DISABLED"

C2_Witness ==
    /\ op = "set_netshield"
    /\ arg[1] = "DISABLED"
    /\ tier = "FREE"
    /\ pre.netshield = "MALWARE"
    /\ conf.netshield = "DISABLED"

\* what set_killswitch guarantees about one call
KillswitchCallOrdered ==
    op = "set_killswitch"
    => /\ calls # <<>>
       /\ calls[1].fn = "update_from_user_configuration_menu"
       /\ calls[1].args = <<arg[1]>>
       /\ \A i \in 1..Len(calls) :
             calls[i].fn \in StoreUpdates
             => i > 1 /\ calls[1].returned /\ calls[i].args = <<arg[1]>>
       /\ ~calls[1].returned => result # "ok" /\ conf = pre
       /\ calls[1].returned => result = "ok" /\ conf.killswitch = arg[1]

\* C3 as stated: the kill switch manager is called first, the configuration
\* is updated only when it returned, a failure raises and changes nothing,
\* and over any sequence of operations the persisted mode changes only to a
\* mode the kill switch manager accepted in that call.
C3_KillswitchOnlyViaController ==
    /\ KillswitchCallOrdered
    /\ conf.killswitch # pre.killswitch
       => /\ op = "set_killswitch"
          /\ calls[1].returned
          /\ conf.killswitch = arg[1]

\* C3 amended: as C3, except that reset_to_default_configs puts the
\* persisted mode back to its default without a kill switch manager call.
C3_KillswitchViaControllerOrReset ==
    /\ KillswitchCallOrdered
    /\ conf.killswitch # pre.killswitch
       => \/ /\ op = "set_killswitch"
             /\ calls[1].returned
             /\ conf.killswitch = arg[1]
          \/ /\ op = "reset_to_default_configs"
             /\ result = "ok"
             /\ conf.killswitch = DefaultConf.killswitch

C3_Witness ==
    /\ op = "set_killswitch"
    /\ arg = <<"HARD", "DisableConnectivityCheckError">>
    /\ result = "KillSwitchConfigurationError"
    /\ pre.killswitch = "SOFT"
    /\ conf.killswitch = "SOFT"

\* the position of the first entry of list that is no dotted quad
FirstBad(list) ==
    CHOOSE i \in 1..Len(list) :
        /\ ~IsDottedQuad(list[i])
        /\ \A j \in 1..(i - 1) : IsDottedQuad(list[j])

\* C4: set_dns with a recognised status and a list holding an invalid entry
\* raises the IP error naming the first invalid entry, makes no update call
\* and leaves the persisted status and servers as they were.
C4_ValidateAllBeforeCommit ==
    (op = "set_dns" /\ arg[1] \in UserSettingStatusEnum
        /\ \E i \in 1..Len(arg[3]) : ~IsDottedQuad(arg[3][i]))
    => /\ result = "InvalidIpError"
       /\ errValue = arg[3][FirstBad(arg[3])]
       /\ calls = <<>>
       /\ conf = pre

C4_Witness ==
    /\ op = "set_dns"
    /\ arg = <<"CUSTOM", TRUE, <<IpA, IpBad>>>>
    /\ result = "InvalidIpError"
    /\ errValue = IpBad
    /\ pre.dns_status = "ENABLED"

\* C5: whenever the persisted DNS status is CUSTOM the persisted server list
\* is non-empty and every entry is a valid IPv4 address.
C5_CustomHasServers ==
    conf.dns_status = "CUSTOM"
    => /\ conf.custom_dns # <<>>
       /\ \A i \in 1..Len(conf.custom_dns) : IsDottedQuad(conf.custom_dns[i])

\* C6: set_protocol with a value outside ProtocolEnum raises the invalid
\* setting error, makes no update call and changes nothing; the persisted
\* protocol is always a member of ProtocolEnum.
C6_UnsupportedProtocolRejected ==
    /\ (op = "set_protocol" /\ arg[1] \notin ProtocolEnum)
       => /\ result = "InvalidSettingError"
          /\ calls = <<>>
          /\ conf = pre
    /\ conf.protocol \in ProtocolEnum

C6_Witness ==
    /\ op = "set_protocol"
    /\ arg[1] = "udp"
    /\ result = "InvalidSettingError"
    /\ pre.protocol = "WIREGUARD"
    /\ conf.protocol = "WIREGUARD"

\* C7: _get_user_settings(True) never fails on a value without an entry in
\* its display mapping.
C7_ReadableNeverUnmapped ==
    (op = "get_user_settings" /\ arg[1] = TRUE) => result = "ok"

\* the literal texts of the display table
ExpectedProtocol ==
    [p \in ProtocolEnum |->
        CASE p = "TCP" -> "OpenVPN (TCP)"
          [] p = "UDP" -> "OpenVPN (UDP)"
          [] p = "WIREGUARD" -> "WIREGUARD"]

ExpectedNetshield ==
    [n \in NetshieldTranslationEnum |->
        CASE n = "MALWARE" -> "Malware"
          [] n = "ADS_MALWARE" -> "Ads and malware"
          [] n = "DISABLED" -> "Disabled"]

IpText(ip) == IF ip = IpA THEN "1.2.3.4" ELSE "9.9.9.9"

RECURSIVE ExpectedServers(_, _)
\* the first n servers, in stored order, with ", " between them
ExpectedServers(list, n) ==
    IF n = 0 THEN ""
    ELSE IF n = 1 THEN IpText(list[1])
    ELSE ExpectedServers(list, n - 1) \o ", " \o IpText(list[n])

\* C8: the readable projection has exactly the four keys PROTOCOL,
\* KILLSWITCH, DNS and NETSHIELD with the literal texts of the display
\* table, and the raw projection has all five keys.
C8_ReadableProjection ==
    /\ (op = "get_user_settings" /\ arg[1] = TRUE)
       => /\ result = "ok"
          /\ DOMAIN ret = {"PROTOCOL", "KILLSWITCH", "DNS", "NETSHIELD"}
          /\ ret["PROTOCOL"] = ExpectedProtocol[conf.protocol]
          /\ ret["KILLSWITCH"] = KillswitchStatusText[conf.killswitch]
          /\ ret["NETSHIELD"] = ExpectedNetshield[conf.netshield]
          /\ conf.dns_status = "ENABLED" => ret["DNS"] = "Automatic"
          /\ conf.dns_status = "CUSTOM"
             => ret["DNS"] = "Custom: " \o
                    ExpectedServers(conf.custom_dns, Len(conf.custom_dns))
    /\ (op = "get_user_settings" /\ arg[1] = FALSE)
       => /\ DOMAIN ret =
                {"PROTOCOL", "KILLSWITCH", "DNS", "CUSTOM_DNS", "NETSHIELD"}
          /\ ret["CUSTOM_DNS"] = conf.custom_dns

C8_Witness ==
    /\ op = "get_user_settings"
    /\ arg[1] = TRUE
    /\ conf.protocol = "UDP"
    /\ conf.dns_status = "CUSTOM"
    /\ conf.custom_dns = <<IpB, IpA>>
    /\ conf.netshield = "ADS_MALWARE"
    /\ ret["DNS"] = "Custom: 9.9.9.9, 1.2.3.4"
    /\ ret["PROTOCOL"] = "OpenVPN (UDP)"

\* C9: a call of set_dns without custom_dns_ips passes an empty list to
\* update_dns, whatever happened to the lists passed in earlier calls.
C9_DefaultListAlwaysEmpty ==
    (op = "set_dns" /\ ~arg[2])
    => /\ arg[3] = <<>>
       /\ \A i \in 1..Len(calls) :
             calls[i].fn = "update_dns" => calls[i].args[2] = <<>>

\* the number of configuration updates among the calls
UpdateCount == Cardinality({i \in 1..Len(calls) : calls[i].fn \in StoreUpdates})

\* C10: each setter changes only its own fields of the persisted
\* configuration and makes at most one update call; a read changes nothing.
C10_Frame ==
    /\ op \in {"set_protocol", "set_netshield", "set_killswitch", "set_dns"}
       => UpdateCount <= 1
    /\ op = "set_protocol" => conf = [pre EXCEPT !.protocol = conf.protocol]
    /\ op = "set_netshield" => conf = [pre EXCEPT !.netshield = conf.netshield]
    /\ op = "set_killswitch"
       => conf = [pre EXCEPT !.killswitch = conf.killswitch]
    /\ op = "set_dns"
       => conf = [pre EXCEPT !.dns_status = conf.dns_status,
                             !.custom_dns = conf.custom_dns]
    /\ op \in ReadOps => conf = pre /\ calls = <<>>

C10_Witness ==
    /\ op = "set_netshield"
    /\ result = "ok"
    /\ conf.netshield = "ADS_MALWARE"
    /\ pre.netshield = "DISABLED"
    /\ conf.killswitch = "HARD"
    /\ conf.protocol = "WIREGUARD"
    /\ conf.dns_status = "CUSTOM"

====
